---- MODULE Spec2Model ----
(***************************************************************************)
(* Expression trees (expressions.py): the node classes and their operator  *)
(* overloads, Operator.__str__, the explicit-stack postvisitor and the     *)
(* differentiate rules registered for it.                                  *)
(*                                                                         *)
(* Python objects are allocated on a heap: heap[i] is the i-th Expression  *)
(* instance created, and <<"ref", i>> is a reference to it, so that two    *)
(* structurally equal nodes built independently stay distinct (Expression  *)
(* defines neither __eq__ nor __hash__: dict keys are identities).  Other  *)
(* Python values are <<"int", n>> and <<"str", s>>.                        *)
(***************************************************************************)
EXTENDS Integers, Sequences, FiniteSets, TLC

VARIABLES
    heap,     \* the Expression instances created so far
    root,     \* the expression the caller holds: expr of postvisitor
    fn,       \* the fold function passed to postvisitor
    var,      \* kwargs["var"]
    stack,    \* postvisitor's stack
    visited,  \* postvisitor's visited: node identity -> result of fn
    pc,       \* "idle", "loop", "done", "raised", "str", "combined"
    ret,      \* the value returned to the caller, or the exception raised
    calls,    \* history: the invocations of fn of this postvisitor call
    again,    \* the root is the result of an earlier differentiation
    out,      \* the string returned by str(root)
    lastOp    \* history: the operator expression the caller evaluated

vars == <<heap, root, fn, var, stack, visited, pc, ret, calls, again,
          out, lastOp>>

\* ------------------------------------------------------------------ bounds

\* Largest number of nodes of the expression graph the caller builds, all
\* node classes and payloads allowed.
MaxNodes == 3

\* Largest number of nodes of a graph with one class of terminal and one
\* class of operator, every way of sharing operands allowed.
MaxShapeNodes == 4

\* ------------------------------------------------------------------ values

Ref(i) == <<"ref", i>>
PyInt(n) == <<"int", n>>
PyStr(s) == <<"str", s>>
None == <<"None", 0>>
NotImplemented == <<"NotImplemented", 0>>

IsRef(v) == v[1] = "ref"
IsInt(v) == v[1] = "int"

\* isinstance(v, numbers.Number)
IsNumber(v) == IsInt(v)

\* isinstance(v, Expression)
IsExpression(v) == IsRef(v)

\* Exceptions are the values <<"raise", name>>.
Raise(name) == <<"raise", name>>
IsRaise(v) == v[1] = "raise"

\* Values of the number payloads and symbol names the caller uses.
NumVals == {3}
Names == {"x", "y"}
OpKinds == {"Add", "Sub", "Mul", "Div", "Pow"}

\* ------------------------------------------------------------- node classes

\* Terminal.__init__: self.value = value; Expression.__init__(): operands = ()
TerminalNode(kind, value) ==
    [kind |-> kind, value |-> value, operands |-> <<>>]

\* Expression.__init__(*operands) for the Operator subclasses
OperatorNode(kind, a, b) ==
    [kind |-> kind, value |-> None, operands |-> <<a, b>>]

\* The class attribute precedence.
TerminalPrecedence == 3
AddPrecedence == 0
SubPrecedence == 0
MulPrecedence == 1
DivPrecedence == 1
PowPrecedence == 2

precedence(kind) ==
    CASE kind = "Add" -> AddPrecedence
      [] kind = "Sub" -> SubPrecedence
      [] kind = "Mul" -> MulPrecedence
      [] kind = "Div" -> DivPrecedence
      [] kind = "Pow" -> PowPrecedence
      [] kind \in {"Number", "Symbol"} -> TerminalPrecedence

\* The class attribute symbol.
symbol(kind) ==
    CASE kind = "Add" -> "+"
      [] kind = "Sub" -> "-"
      [] kind = "Mul" -> "*"
      [] kind = "Div" -> "/"
      [] kind = "Pow" -> "^"

\* A result of an expression that may allocate: the heap after it and its
\* value (or the exception it raises).
Res(h, v) == [h |-> h, v |-> v]

\* Number(value): TypeError unless value is a number.
Number(h, value) ==
    IF ~IsNumber(value) THEN Res(h, Raise("TypeError"))
    ELSE Res(Append(h, TerminalNode("Number", value)), Ref(Len(h) + 1))

\* Symbol(value): TypeError unless value is a str.
Symbol(h, value) ==
    IF value[1] # "str" THEN Res(h, Raise("TypeError"))
    ELSE Res(Append(h, TerminalNode("Symbol", value)), Ref(Len(h) + 1))

\* Add(a, b), Sub(a, b), ...: the operands are stored unchecked.
New(h, kind, a, b) ==
    Res(Append(h, OperatorNode(kind, a, b)), Ref(Len(h) + 1))

\* ---------------------------------------------------- operator overloads

\* Expression.__add__, __sub__, __mul__, __truediv__, __pow__: a number is
\* wrapped in Number; anything else is passed to the node class as it is.
Forward(h, kind, self, other) ==
    IF IsNumber(other)
    THEN LET w == Number(h, other) IN New(w.h, kind, self, w.v)
    ELSE New(h, kind, self, other)

\* Expression.__radd__, __rsub__, __rmul__, __rtruediv__: other is the left
\* operand.  __rpow__ goes through the builtin pow(Number(other), self),
\* which is Number(other).__pow__(self).
Reflected(h, kind, self, other) ==
    IF IsNumber(other)
    THEN LET w == Number(h, other) IN
         IF kind = "Pow" THEN Forward(w.h, kind, w.v, self)
         ELSE New(w.h, kind, w.v, self)
    ELSE Res(h, NotImplemented)

\* int.__add__, int.__sub__, int.__mul__ on two ints.
IntOp(kind, m, n) ==
    CASE kind = "Add" -> m + n
      [] kind = "Sub" -> m - n
      [] kind = "Mul" -> m * n

\* The evaluation of `a <op> b`: a's method first; a's type is not an
\* Expression, so its method returns NotImplemented for an Expression b, and
\* b's reflected method is tried; NotImplemented from it is a TypeError.
BinOp(h, kind, a, b) ==
    IF IsExpression(a) THEN Forward(h, kind, a, b)
    ELSE IF IsExpression(b)
    THEN LET r == Reflected(h, kind, b, a) IN
         IF r.v = NotImplemented THEN Res(h, Raise("TypeError")) ELSE r
    ELSE IF IsInt(a) /\ IsInt(b) THEN Res(h, PyInt(IntOp(kind, a[2], b[2])))
    ELSE Res(h, Raise("TypeError"))

\* -------------------------------------------------------------- rendering

\* str(n) of an int: its decimal digits, "-" first when negative.
Digit(d) ==
    CASE d = 0 -> "0" [] d = 1 -> "1" [] d = 2 -> "2" [] d = 3 -> "3"
      [] d = 4 -> "4" [] d = 5 -> "5" [] d = 6 -> "6" [] d = 7 -> "7"
      [] d = 8 -> "8" [] d = 9 -> "9"

RECURSIVE Digits(_)
Digits(n) == IF n < 10 THEN <<Digit(n)>> ELSE Digits(n \div 10) \o <<Digit(n % 10)>>

IntStr(n) == IF n < 0 THEN <<"-">> \o Digits(-n) ELSE Digits(n)

RECURSIVE str(_, _)

\* paren with <= in place of <.
parenNonStrict(h, kind, expr) ==
    IF precedence(h[expr[2]].kind) <= precedence(kind)
    THEN <<"(">> \o str(h, expr) \o <<")">>
    ELSE str(h, expr)

\* paren(expr) inside Operator.__str__, self being the node of kind `kind`.
paren(h, kind, expr) ==
    IF precedence(h[expr[2]].kind) < precedence(kind)
    THEN <<"(">> \o str(h, expr) \o <<")">>
    ELSE str(h, expr)

\* Terminal.__str__ is str(self.value); Operator.__str__ joins the two
\* sides and the symbol with single spaces.  A string is the sequence of
\* its pieces: "(", ")", " ", a symbol, a name, a number.
str(h, v) ==
    LET n == h[v[2]] IN
    IF n.kind = "Number" THEN IntStr(n.value[2])
    ELSE IF n.kind = "Symbol" THEN <<n.value[2]>>
    ELSE paren(h, n.kind, n.operands[1]) \o <<" ", symbol(n.kind), " ">>
         \o paren(h, n.kind, n.operands[2])

\* ---------------------------------------------------------- differentiate

\* differentiate.register(Number)
DifferentiateNumber(h, e, o, v) == Res(h, PyInt(0))

\* differentiate.register(Symbol)
DifferentiateSymbol(h, e, o, v) ==
    IF h[e].value = PyStr(v) THEN Res(h, PyInt(1)) ELSE Res(h, PyInt(0))

\* differentiate.register(Add): o[0] + o[1]
DifferentiateAdd(h, e, o, v) == BinOp(h, "Add", o[1], o[2])

\* differentiate.register(Sub): o[0] - o[1]
DifferentiateSub(h, e, o, v) == BinOp(h, "Sub", o[1], o[2])

\* differentiate.register(Mul):
\*   o[0] * expr.operands[1] + o[1] * expr.operands[0]
DifferentiateMul(h, e, o, v) ==
    LET a == BinOp(h, "Mul", o[1], h[e].operands[2])
        b == BinOp(a.h, "Mul", o[2], h[e].operands[1])
    IN  BinOp(b.h, "Add", a.v, b.v)

\* differentiate.register(Div):
\*   (o[0] * expr.operands[1] - expr.operands[0] * o[1])
\*       / (expr.operands[1]**2)
DifferentiateDiv(h, e, o, v) ==
    LET a == BinOp(h, "Mul", o[1], h[e].operands[2])
        b == BinOp(a.h, "Mul", h[e].operands[1], o[2])
        c == BinOp(b.h, "Sub", a.v, b.v)
        d == BinOp(c.h, "Pow", h[e].operands[2], PyInt(2))
    IN  BinOp(d.h, "Div", c.v, d.v)

\* The Pow rule multiplying by o[1], the derivative of the exponent.
DifferentiatePowWrongFactor(h, e, o, v) ==
    LET a == BinOp(h, "Sub", h[e].operands[2], PyInt(1))
        b == BinOp(a.h, "Pow", h[e].operands[1], a.v)
        c == BinOp(b.h, "Mul", h[e].operands[2], b.v)
    IN  BinOp(c.h, "Mul", c.v, o[2])

\* differentiate.register(Pow):
\*   expr.operands[1] * (expr.operands[0] ** (expr.operands[1] - 1)) * o[0]
DifferentiatePow(h, e, o, v) ==
    LET a == BinOp(h, "Sub", h[e].operands[2], PyInt(1))
        b == BinOp(a.h, "Pow", h[e].operands[1], a.v)
        c == BinOp(b.h, "Mul", h[e].operands[2], b.v)
    IN  BinOp(c.h, "Mul", c.v, o[1])

\* The singledispatch on type(expr); the base function raises
\* NotImplementedError for a class with no registered rule.
differentiate(h, e, o, v) ==
    LET kind == h[e].kind IN
    CASE kind = "Number" -> DifferentiateNumber(h, e, o, v)
      [] kind = "Symbol" -> DifferentiateSymbol(h, e, o, v)
      [] kind = "Add" -> DifferentiateAdd(h, e, o, v)
      [] kind = "Sub" -> DifferentiateSub(h, e, o, v)
      [] kind = "Mul" -> DifferentiateMul(h, e, o, v)
      [] kind = "Div" -> DifferentiateDiv(h, e, o, v)
      [] kind = "Pow" -> DifferentiatePow(h, e, o, v)
      [] OTHER -> Res(h, Raise("NotImplementedError"))

\* A caller-supplied pure fold function: it builds the term of its
\* arguments, <<"term", <<e, result of left, result of right>>>>, which any
\* other pure function of (e, results) is a function of.
term(h, e, o, v) == Res(h, <<"term", <<e>> \o [i \in 1..Len(o) |-> o[i][2]]>>)

\* fn(e, *results, **kwargs)
Apply(f, h, e, o, v) ==
    IF f = "differentiate" THEN differentiate(h, e, o, v) ELSE term(h, e, o, v)

\* ------------------------------------------------------------ postvisitor

\* o in visited: a dict lookup by identity
InVisited(vis, o) == IsRef(o) /\ o[2] \in DOMAIN vis

\* unvisited_children that looks at the first operand only.
UnvisitedFirstOnly(vis, ops) ==
    IF ops = <<>> \/ InVisited(vis, ops[1]) THEN <<>> ELSE <<ops[1]>>

\* unvisited_children: the operands not in visited, in operand order
\* (an operand that occurs twice is listed twice).
RECURSIVE UnvisitedChildren(_, _)
UnvisitedChildren(vis, ops) ==
    IF ops = <<>> THEN <<>>
    ELSE (IF InVisited(vis, Head(ops)) THEN <<>> ELSE <<Head(ops)>>)
         \o UnvisitedChildren(vis, Tail(ops))

\* The children pushed without e pushed back under them.
PushPendingNoParent(stk, e, unv) == stk \o unv

\* stack.append(e); for u in unvisited_children: stack.append(u)
PushPending(stk, e, unv) == stk \o <<e>> \o unv

\* The results passed last operand first.
ArgsReversed(vis, ops) ==
    [i \in 1..Len(ops) |-> vis[ops[Len(ops) + 1 - i][2]]]

\* (visited[o] for o in e.operands)
Args(vis, ops) == [i \in 1..Len(ops) |-> vis[ops[i][2]]]

\* visited[e] = ...
Store(vis, e, r) == (e :> r) @@ vis

\* expr = root is pushed on an empty stack, visited is empty.
Call(f, v) ==
    /\ pc = "idle"
    /\ fn' = f
    /\ var' = v
    /\ stack' = <<root>>
    /\ visited' = <<>>
    /\ calls' = <<>>
    /\ pc' = "loop"
    /\ UNCHANGED <<heap, root, ret, again, out, lastOp>>

\* One iteration of `while stack`.
Iterate ==
    /\ pc = "loop"
    /\ stack # <<>>
    /\ LET e == stack[Len(stack)]
           rest == SubSeq(stack, 1, Len(stack) - 1)
       IN
       IF ~IsExpression(e)
       THEN \* e.operands of a value that is no Expression
            /\ pc' = "raised"
            /\ ret' = Raise("AttributeError")
            /\ stack' = rest
            /\ UNCHANGED <<heap, visited, calls>>
       ELSE
       LET ops == heap[e[2]].operands
           unv == UnvisitedChildren(visited, ops)
       IN
       IF unv # <<>>
       THEN /\ stack' = PushPending(rest, e, unv)
            /\ UNCHANGED <<heap, visited, calls, pc, ret>>
       ELSE
       IF \E k \in 1..Len(ops) : ~InVisited(visited, ops[k])
       THEN \* visited[o] of an operand that has no result
            /\ pc' = "raised"
            /\ ret' = Raise("KeyError")
            /\ stack' = rest
            /\ UNCHANGED <<heap, visited, calls>>
       ELSE
       LET o == Args(visited, ops)
           r == Apply(fn, heap, e[2], o, var)
       IN
       IF IsRaise(r.v)
       THEN /\ pc' = "raised"
            /\ ret' = r.v
            /\ stack' = rest
            /\ calls' = Append(calls, [node |-> e[2], args |-> o])
            /\ UNCHANGED <<heap, visited>>
       ELSE /\ stack' = rest
            /\ heap' = r.h
            /\ visited' = Store(visited, e[2], r.v)
            /\ calls' = Append(calls, [node |-> e[2], args |-> o])
            /\ UNCHANGED <<pc, ret>>
    /\ UNCHANGED <<root, fn, var, again, out, lastOp>>

\* return visited[expr]
Return ==
    /\ pc = "loop"
    /\ stack = <<>>
    /\ IF InVisited(visited, root)
       THEN pc' = "done" /\ ret' = visited[root[2]]
       ELSE pc' = "raised" /\ ret' = Raise("KeyError")
    /\ UNCHANGED <<heap, root, fn, var, stack, visited, calls, again, out,
                   lastOp>>

\* The caller passes the derivative it got to
\* postvisitor(..., differentiate, var=...) again.
Redifferentiate ==
    /\ pc = "done"
    /\ fn = "differentiate"
    /\ ~again
    /\ again' = TRUE
    /\ root' = ret
    /\ stack' = <<ret>>
    /\ visited' = <<>>
    /\ calls' = <<>>
    /\ pc' = "loop"
    /\ UNCHANGED <<heap, fn, var, ret, out, lastOp>>

\* The caller evaluates str(root).
Render ==
    /\ pc = "idle"
    /\ out' = str(heap, root)
    /\ pc' = "str"
    /\ UNCHANGED <<heap, root, fn, var, stack, visited, ret, calls, again,
                   lastOp>>

\* The values the caller combines the root with.
Literals == {PyInt(n) : n \in NumVals} \cup {PyStr(s) : s \in Names}

\* The caller evaluates `a <op> b`, one of a and b being the root.
Combine(kind, a, b) ==
    /\ pc = "idle"
    /\ LET r == BinOp(heap, kind, a, b) IN
       /\ heap' = r.h
       /\ ret' = r.v
       /\ pc' = IF IsRaise(r.v) THEN "raised" ELSE "combined"
    /\ lastOp' = <<kind, a, b>>
    /\ UNCHANGED <<root, fn, var, stack, visited, calls, again, out>>

\* ------------------------------------------------------- the caller's graphs

\* The nodes reachable from node i (the graph is acyclic: an operand is
\* created before the node that holds it).
RECURSIVE Reach(_, _)
Reach(h, i) ==
    {i} \cup UNION {Reach(h, h[i].operands[k][2]) : k \in 1..Len(h[i].operands)}

Terminals ==
    {TerminalNode("Number", PyInt(n)) : n \in NumVals}
    \cup {TerminalNode("Symbol", PyStr(s)) : s \in Names}

\* The heaps of n nodes: each node is a terminal of `terms` or an operator
\* of a class of `kinds` over two nodes created before it.
RECURSIVE HeapsOfLen(_, _, _)
HeapsOfLen(n, terms, kinds) ==
    IF n = 0 THEN {<<>>}
    ELSE {Append(h, nd) :
            h \in HeapsOfLen(n - 1, terms, kinds),
            nd \in terms \cup
                   {OperatorNode(k, Ref(l), Ref(r)) :
                      k \in kinds, l \in 1..(n - 1), r \in 1..(n - 1)}}

\* The graphs of at most maxn nodes, trees and DAGs with shared nodes, the
\* last node created being the root every other node is reachable from.
Graphs(maxn, terms, kinds) ==
    {h \in UNION {HeapsOfLen(n, terms, kinds) : n \in 1..maxn} :
        Reach(h, Len(h)) = 1..Len(h)}

\* The caller has built a graph and holds its root.
InitWith(graphs) ==
    /\ heap \in graphs
    /\ root = Ref(Len(heap))
    /\ fn = "none"
    /\ var = ""
    /\ stack = <<>>
    /\ visited = <<>>
    /\ pc = "idle"
    /\ ret = None
    /\ calls = <<>>
    /\ again = FALSE
    /\ out = <<>>
    /\ lastOp = <<>>

Init == InitWith(Graphs(MaxNodes, Terminals, OpKinds))

\* Graphs of Symbol("x") and Mul nodes only.
InitShapes ==
    InitWith(Graphs(MaxShapeNodes, {TerminalNode("Symbol", PyStr("x"))}, {"Mul"}))

Next ==
    \/ \E v \in Names : Call("differentiate", v)
    \/ Call("term", "")
    \/ Iterate
    \/ Return
    \/ Redifferentiate
    \/ Render
    \/ \E kind \in OpKinds, lit \in Literals \cup {root} : Combine(kind, root, lit)
    \/ \E kind \in OpKinds, lit \in Literals : Combine(kind, lit, root)

Spec == Init /\ [][Next]_vars

\* One call of postvisitor on the caller's graph, and nothing else.
PostvisitorNext ==
    \/ \E v \in Names : Call("differentiate", v)
    \/ Call("term", "")
    \/ Iterate
    \/ Return

PostvisitorSpec == Init /\ [][PostvisitorNext]_vars

\* One call of postvisitor on a graph of InitShapes.
VisitSpec == InitShapes /\ [][PostvisitorNext]_vars

\* postvisitor is a plain loop: once entered it keeps iterating, and it
\* returns when the loop ends.
FairSpec == VisitSpec /\ WF_vars(Iterate) /\ WF_vars(Return)

\* One call of str on the caller's graph, and nothing else.
RenderSpec == Init /\ [][Render]_vars

\* ------------------------------------------------------------------ claims

\* The tree under a value, node identities forgotten: <<class, payload>> for a
\* terminal, <<class, left, right>> for an operator, the value itself when it
\* is no Expression.
RECURSIVE Tree(_, _)
Tree(h, v) ==
    IF ~IsExpression(v) THEN v
    ELSE LET n == h[v[2]] IN
         IF n.operands = <<>> THEN <<n.kind, n.value>>
         ELSE <<n.kind, Tree(h, n.operands[1]), Tree(h, n.operands[2])>>

NumberTree(n) == <<"Number", PyInt(n)>>
SymbolTree(name) == <<"Symbol", PyStr(name)>>

\* The number of invocations of fn on node n in this call of postvisitor.
Invocations(n) == Cardinality({i \in 1..Len(calls) : calls[i].node = n})

\* The number of operand slots of the graph under the root that hold node n.
Parents(n) ==
    Cardinality({<<p, k>> \in Reach(heap, root[2]) \X {1, 2} :
                    /\ heap[p].operands # <<>>
                    /\ heap[p].operands[k] = Ref(n)})

\* C1: in one call of postvisitor fn is invoked at most once on a node, and
\* exactly once on every node reachable from the root when the call returns.
C1_SingleVisit ==
    IsExpression(root) =>
        /\ \A n \in Reach(heap, root[2]) : Invocations(n) <= 1
        /\ pc = "done" => \A n \in Reach(heap, root[2]) : Invocations(n) = 1

\* C2: whenever a step invokes fn on a node, every operand of the node has a
\* result in visited before the step, and fn receives the results in operand
\* order: none for a terminal, left then right for an operator.
C2_ChildrenBeforeParent ==
    [][Len(calls') = Len(calls) + 1 =>
        LET c == calls'[Len(calls')]
            ops == heap[c.node].operands
        IN  /\ \A k \in 1..Len(ops) : InVisited(visited, ops[k])
            /\ ops = <<>> => c.args = <<>>
            /\ ops # <<>> =>
                 c.args = <<visited[ops[1][2]], visited[ops[2][2]]>>]_vars

\* fn has been invoked on an operator node whose operands are two distinct
\* nodes.
C2_Witness ==
    \E i \in 1..Len(calls) :
        LET ops == heap[calls[i].node].operands IN
        ops # <<>> /\ ops[1] # ops[2]

\* C3: a call of postvisitor on an expression graph reaches the empty stack
\* with a result for the root in visited, and returns that result.
C3_Termination ==
    (pc = "loop" /\ IsExpression(root))
        ~> (/\ pc = "done"
            /\ stack = <<>>
            /\ InVisited(visited, root)
            /\ ret = visited[root[2]])

\* A call on a graph with a node held by two operand slots has returned.
C3_Witness ==
    /\ pc = "done"
    /\ \E n \in Reach(heap, root[2]) : Parents(n) >= 2

\* Whether the graph under node i holds Symbol(v).
DependsOn(h, i, v) ==
    \E n \in Reach(h, i) : h[n].kind = "Symbol" /\ h[n].value = PyStr(v)

\* C4: differentiation never returns a value for a graph that holds a Pow
\* node whose exponent depends on the differentiation variable.
C4_VariableExponentFails ==
    ~(/\ pc = "done"
      /\ fn = "differentiate"
      /\ ~again
      /\ \E n \in Reach(heap, root[2]) :
            /\ heap[n].kind = "Pow"
            /\ DependsOn(heap, heap[n].operands[2][2], var))

\* C5: differentiation returns an Expression, and differentiating what it
\* returned does not fail.
C5_Closure ==
    /\ (pc = "done" /\ fn = "differentiate") => IsExpression(ret)
    /\ ~(again /\ pc = "raised")

\* C6: the derivative of a Number is Number(0); the derivative of Symbol(n) is
\* Number(1) when n is the variable and Number(0) when it is not.
C6_TerminalDerivative ==
    (/\ pc = "done"
     /\ fn = "differentiate"
     /\ ~again
     /\ heap[root[2]].operands = <<>>)
    => Tree(heap, ret) =
         NumberTree(IF Tree(heap, root) = SymbolTree(var) THEN 1 ELSE 0)

\* The call differentiate(Pow(Symbol("x"), Number(3)), var="x") has returned.
PowX3Differentiated ==
    /\ pc = "done"
    /\ fn = "differentiate"
    /\ var = "x"
    /\ ~again
    /\ Tree(heap, root) = <<"Pow", SymbolTree("x"), NumberTree(3)>>

\* C7 as stated: the derivative of Pow(Symbol("x"), Number(3)) by "x" is
\* Mul(Mul(Number(3), Pow(Symbol("x"), Number(2))), Number(1)).
C7_PowerRuleReduced ==
    PowX3Differentiated =>
        Tree(heap, ret) =
            <<"Mul",
              <<"Mul", NumberTree(3),
                <<"Pow", SymbolTree("x"), NumberTree(2)>>>>,
              NumberTree(1)>>

\* C7 amended: the derivative of Pow(Symbol("x"), Number(3)) by "x" is
\* Mul(Mul(Number(3), Pow(Symbol("x"), Sub(Number(3), Number(1)))), Number(1)):
\* the exponent is the unevaluated difference, the trailing factor Number(1).
C7_PowerRuleShape ==
    PowX3Differentiated =>
        Tree(heap, ret) =
            <<"Mul",
              <<"Mul", NumberTree(3),
                <<"Pow", SymbolTree("x"),
                  <<"Sub", NumberTree(3), NumberTree(1)>>>>>>,
              NumberTree(1)>>

C7_Witness == PowX3Differentiated

\* C8: a combinator given an operand that is neither an Expression nor a
\* number fails and creates no Operator node; the operands of an Operator
\* node a combinator returns are Expressions.
C8_CompositionError ==
    lastOp # <<>> =>
        /\ (\E k \in {2, 3} : ~IsExpression(lastOp[k]) /\ ~IsNumber(lastOp[k]))
              => /\ pc = "raised"
                 /\ \A i \in (root[2] + 1)..Len(heap) :
                        heap[i].kind \notin OpKinds
        /\ pc = "combined" =>
              \A k \in {1, 2} : IsExpression(heap[ret[2]].operands[k])

\* The precedence tiers and glyphs as the parenthesization law states them.
Tier(kind) ==
    IF kind \in {"Add", "Sub"} THEN 0
    ELSE IF kind \in {"Mul", "Div"} THEN 1
    ELSE IF kind = "Pow" THEN 2 ELSE 3

Glyph(kind) ==
    CASE kind = "Add" -> "+" [] kind = "Sub" -> "-" [] kind = "Mul" -> "*"
      [] kind = "Div" -> "/" [] kind = "Pow" -> "^"

\* The rendering of operand c of an operator of class `kind`: in parentheses
\* iff the tier of c is below the tier of the operator.
Side(kind, c) ==
    IF Tier(heap[c[2]].kind) < Tier(kind)
    THEN <<"(">> \o str(heap, c) \o <<")">>
    ELSE str(heap, c)

\* C9: an Operator node renders as left + " " + glyph + " " + right, each
\* operand in parentheses iff its precedence is below the node's.
C9_Parenthesization ==
    (pc = "str" /\ heap[root[2]].operands # <<>>) =>
        LET n == heap[root[2]] IN
        out = Side(n.kind, n.operands[1]) \o <<" ", Glyph(n.kind), " ">>
              \o Side(n.kind, n.operands[2])

\* An operator was rendered with one operand of lower precedence and one that
\* is not.
C9_Witness ==
    /\ pc = "str"
    /\ heap[root[2]].operands # <<>>
    /\ LET n == heap[root[2]] IN
       /\ \E k \in {1, 2} : Tier(heap[n.operands[k][2]].kind) < Tier(n.kind)
       /\ \E k \in {1, 2} : Tier(heap[n.operands[k][2]].kind) >= Tier(n.kind)

\* The naive recursive fold F(e) = fn(e, F(left), F(right)).
RECURSIVE RecursiveFold(_, _)
RecursiveFold(h, e) ==
    LET ops == h[e].operands IN
    Apply("term", h, e, [k \in 1..Len(ops) |-> RecursiveFold(h, ops[k][2])],
          "").v

\* C10: with a pure fold function postvisitor returns, and returns the value
\* of the recursive fold at the root.
C10_RecursiveFold ==
    (fn = "term" /\ pc \in {"done", "raised"}) =>
        /\ pc = "done"
        /\ ret = RecursiveFold(heap, root[2])

\* A call with the pure fold function has returned on a graph where the
\* stack held a node twice: the node is in two operand slots.
C10_Witness ==
    /\ pc = "done"
    /\ fn = "term"
    /\ \E n \in Reach(heap, root[2]) : Parents(n) >= 2 /\ Invocations(n) >= 2

====
